---- MODULE Spec2Model ----
(***************************************************************************)
(* Tiered token storage of the Tidal proxy API: the TokenManager           *)
(* (three-tier version: D1 -> KV -> Redis), the three storage providers,   *)
(* the StorageFactory and TidalAPI.makeRequest.                            *)
(***************************************************************************)
EXTENDS Integers, Sequences, FiniteSets, TLC

VARIABLES
    env,                \* the Env object shared by the worker: bindings and flags
    storage,            \* TokenManager.storage: the provider object in use
    storageStats,       \* TokenManager.storageStats
    consecutiveErrors,  \* TokenManager.consecutiveErrors
    d1Table,            \* rows of the D1 table "tokens"
    d1Schema,           \* names of the tables of the D1 database (sqlite_master)
    kvNamespace,        \* entries of the KV namespace TIDAL_TOKENS
    redisStore,         \* entries of the Upstash Redis database
    call,               \* the last completed getTokens / updateTokens call
    rf,                 \* the refreshTokens invocation in progress (or the last one)
    mr,                 \* the makeRequest invocation in progress (or the last one)
    written,            \* per session type, the last record a successful updateTokens stored
    storageStatus,      \* the last answer of GET /api/storage/status
    calls               \* number of top-level invocations so far

vars == <<env, storage, storageStats, consecutiveErrors, d1Table, d1Schema, kvNamespace,
          redisStore, call, rf, mr, written, storageStatus, calls>>

mgrVars == <<env, storage, storageStats, consecutiveErrors>>
storeVars == <<d1Table, d1Schema, kvNamespace, redisStore>>

-----------------------------------------------------------------------------
(* Bounds of the model *)

MaxCalls == 2
MaxRequests == 1
MaxNow == 2
StartGap == 1

-----------------------------------------------------------------------------
(* Types and constants of the program *)

TV == "TV"
MOBILE_DEFAULT == "MOBILE_DEFAULT"
MOBILE_ATMOS == "MOBILE_ATMOS"
SessionType == {TV, MOBILE_DEFAULT, MOBILE_ATMOS}

CLIENT_IDS ==
    [TV |-> "4N3n6Q1x95LL5K7p",
     MOBILE_DEFAULT |-> "6BDSRdpK9hqEBTgU",
     MOBILE_ATMOS |-> "km8T1xS355y7dd3H"]

StorageProviderType == {"d1", "kv", "redis"}

storageLimits ==
    [d1 |-> [reads |-> 5000000, writes |-> 100000, threshold |-> 95],
     kv |-> [reads |-> 100000, writes |-> 1000, threshold |-> 95]]

errorThreshold == 3

\* limits.reads * limits.threshold, the threshold being 0.95
readThreshold(limits) == (limits.reads * limits.threshold) \div 100
writeThreshold(limits) == (limits.writes * limits.threshold) \div 100

\* new Date(ms).toISOString() and new Date(iso).getTime()
toISOString(ms) == <<"ISO", ms>>
getTime(iso) == iso[2]

\* JSON.stringify / JSON.parse of a TokenData object
JSONstringify(t) ==
    <<"{", t.access_token, t.refresh_token, t.expires, t.country_code, t.updated_at, "}">>
JSONparse(s) ==
    [access_token |-> s[2], refresh_token |-> s[3], expires |-> s[4],
     country_code |-> s[5], updated_at |-> s[6]]

TokenData(a, r, e, u) ==
    [access_token |-> a, refresh_token |-> r, expires |-> toISOString(e),
     country_code |-> "US", updated_at |-> toISOString(u)]

\* an error object: status 0 stands for an error without a status property
Err(status, origin) == [status |-> status, origin |-> origin]
NoErr == Err(0, "none")
NoTokens == TokenData("", "", 0, 0)

\* what the binding of a backend does on one call: it answers, it throws an
\* error without status, or it throws an error carrying status 429
Faults == {"ok", "err", "err429"}
FaultMap == [StorageProviderType -> Faults]
rawError(f, tier) == IF f = "err429" THEN Err(429, tier) ELSE Err(0, tier)

-----------------------------------------------------------------------------
(* Storage providers *)

getTokenKeyShared(sessionType) == "tidal_tokens:"

getTokenKey(sessionType) == "tidal_tokens:" \o sessionType

Lookup(entries, key) == {e \in entries : e.key = key}
Upsert(entries, e) == {x \in entries : x.key # e.key} \cup {e}

Ok(tokens) == [ok |-> TRUE, tokens |-> tokens, error |-> NoErr]
Throw(error) == [ok |-> FALSE, tokens |-> NoTokens, error |-> error]

\* D1Storage.initialize on a database with the tables schema: it looks the tokens table
\* up in sqlite_master and returns, whether it found it or not (the schema afterwards)
D1StorageInitialize(schema) == schema

\* D1Storage.getTokens on a database with the tables schema and the rows t of tokens;
\* the fault f strikes the statement on tokens
D1StorageGetTokens(schema, t, sessionType, f) ==
    IF f # "ok"
    THEN IF rawError(f, "d1").status # 0
         THEN Throw(rawError(f, "d1"))
         ELSE Throw(Err(500, "d1"))
    ELSE IF "tokens" \notin D1StorageInitialize(schema)
    THEN Throw(Err(500, "d1"))
    ELSE LET result == Lookup(t, getTokenKey(sessionType))
         IN  IF result = {}
             THEN Throw(Err(404, "d1"))
             ELSE Ok(JSONparse((CHOOSE r \in result : TRUE).value))

\* D1Storage.updateTokens: the new table contents, or the error thrown
D1StorageUpdateTokens(schema, t, tokens, sessionType, f) ==
    IF f # "ok" \/ "tokens" \notin D1StorageInitialize(schema)
    THEN [ok |-> FALSE, entries |-> t, schema |-> D1StorageInitialize(schema),
          error |-> Err(500, "d1")]
    ELSE [ok |-> TRUE,
          entries |-> Upsert(t, [key |-> getTokenKey(sessionType),
                                 value |-> JSONstringify(tokens),
                                 expires |-> tokens.expires,
                                 updated_at |-> tokens.updated_at]),
          schema |-> D1StorageInitialize(schema),
          error |-> NoErr]

KVStorageGetTokens(t, sessionType, f) ==
    IF f # "ok"
    THEN Throw(rawError(f, "kv"))
    ELSE LET data == Lookup(t, getTokenKey(sessionType))
         IN  IF data = {}
             THEN Throw(Err(404, "kv"))
             ELSE Ok(JSONparse((CHOOSE r \in data : TRUE).value))

KVStorageUpdateTokens(t, tokens, sessionType, f) ==
    IF f # "ok"
    THEN [ok |-> FALSE, entries |-> t, error |-> rawError(f, "kv")]
    ELSE [ok |-> TRUE,
          entries |-> Upsert(t, [key |-> getTokenKey(sessionType),
                                 value |-> JSONstringify(tokens)]),
          error |-> NoErr]

RedisStorageGetTokens(t, sessionType, f) ==
    IF f # "ok"
    THEN IF rawError(f, "redis").status # 0
         THEN Throw(rawError(f, "redis"))
         ELSE Throw(Err(500, "redis"))
    ELSE LET data == Lookup(t, getTokenKey(sessionType))
         IN  IF data = {}
             THEN Throw(Err(404, "redis"))
             ELSE Ok((CHOOSE r \in data : TRUE).value)

RedisStorageUpdateTokens(t, tokens, sessionType, f) ==
    IF f # "ok"
    THEN [ok |-> FALSE, entries |-> t, error |-> Err(500, "redis")]
    ELSE [ok |-> TRUE,
          entries |-> Upsert(t, [key |-> getTokenKey(sessionType),
                                 value |-> tokens,
                                 ex |-> 24 * 60 * 60]),
          error |-> NoErr]

\* the three backends as one record, and a provider's operations on it
Stores(d, k, r, tables) == [d1 |-> d, kv |-> k, redis |-> r, schema |-> tables]

ProviderGetTokens(tier, st, sessionType, fault) ==
    CASE tier = "d1" -> D1StorageGetTokens(st.schema, st.d1, sessionType, fault["d1"])
      [] tier = "kv" -> KVStorageGetTokens(st.kv, sessionType, fault["kv"])
      [] OTHER -> RedisStorageGetTokens(st.redis, sessionType, fault["redis"])

ProviderUpdateTokens(tier, st, tokens, sessionType, fault) ==
    CASE tier = "d1" ->
            LET r == D1StorageUpdateTokens(st.schema, st.d1, tokens, sessionType, fault["d1"])
            IN  [ok |-> r.ok, st |-> [st EXCEPT !.d1 = r.entries, !.schema = r.schema],
                 error |-> r.error]
      [] tier = "kv" ->
            LET r == KVStorageUpdateTokens(st.kv, tokens, sessionType, fault["kv"])
            IN  [ok |-> r.ok, st |-> [st EXCEPT !.kv = r.entries], error |-> r.error]
      [] OTHER ->
            LET r == RedisStorageUpdateTokens(st.redis, tokens, sessionType, fault["redis"])
            IN  [ok |-> r.ok, st |-> [st EXCEPT !.redis = r.entries], error |-> r.error]

\* StorageFactory.createStorage(env, forceProvider); forceProvider "" when absent
createStorage(e, forceProvider) ==
    IF forceProvider = "d1" THEN "d1"
    ELSE IF forceProvider = "redis" THEN "redis"
    ELSE IF forceProvider = "kv" THEN "kv"
    ELSE IF e.USE_D1 /\ e.D1_DB THEN "d1"
    ELSE IF e.USE_REDIS /\ e.REDIS THEN "redis"
    ELSE "kv"

-----------------------------------------------------------------------------
(* TokenManager: the state of one manager is the record                     *)
(* [env, storage, storageStats, consecutiveErrors]                          *)

Manager(e, s, stats, ce) ==
    [env |-> e, storage |-> s, storageStats |-> stats, consecutiveErrors |-> ce]

\* the constructor, on the environment it is given
constructorEnv(e) ==
    LET e1 == IF e.STORAGE_PREFERENCE = "" THEN [e EXCEPT !.STORAGE_PREFERENCE = "auto"] ELSE e
        e2 == [e1 EXCEPT !.USE_D1 =
                  e1.D1_DB /\ e1.STORAGE_PREFERENCE \in {"d1", "auto"}]
    IN  IF ~e2.USE_D1 /\ e2.REDIS /\ e2.STORAGE_PREFERENCE \in {"redis", "auto"}
        THEN [e2 EXCEPT !.USE_REDIS = TRUE]
        ELSE IF e2.USE_D1 THEN [e2 EXCEPT !.USE_REDIS = FALSE]
        ELSE e2

constructor(e) ==
    LET e1 == constructorEnv(e)
    IN  Manager(e1, createStorage(e1, ""),
                [provider |-> IF e1.USE_D1 THEN "d1"
                              ELSE IF e1.USE_REDIS THEN "redis" ELSE "kv",
                 reads |-> 0, writes |-> 0, errors |-> 0, status |-> "operational"],
                0)

overLimitsStrict(m, limits) ==
    \/ m.storageStats.reads > readThreshold(limits)
    \/ m.storageStats.writes > writeThreshold(limits)

overLimits(m, limits) ==
    \/ m.storageStats.reads >= readThreshold(limits)
    \/ m.storageStats.writes >= writeThreshold(limits)

tooManyErrorsStrict(m) == m.consecutiveErrors > errorThreshold

tooManyErrors(m) == m.consecutiveErrors >= errorThreshold

shouldSwitchFromD1ToKV(m) ==
    IF ~m.env.USE_D1 \/ m.env.STORAGE_PREFERENCE # "auto" THEN FALSE
    ELSE IF overLimits(m, storageLimits.d1) THEN TRUE
    ELSE IF tooManyErrors(m) THEN TRUE
    ELSE FALSE

shouldSwitchFromKVToRedisAnyMode(m) ==
    IF m.env.USE_D1 \/ m.env.USE_REDIS \/ ~m.env.REDIS THEN FALSE
    ELSE IF overLimits(m, storageLimits.kv) THEN TRUE
    ELSE IF tooManyErrors(m) THEN TRUE
    ELSE FALSE

shouldSwitchFromKVToRedis(m) ==
    IF m.env.USE_D1 \/ m.env.USE_REDIS \/ ~m.env.REDIS
       \/ m.env.STORAGE_PREFERENCE # "auto" THEN FALSE
    ELSE IF overLimits(m, storageLimits.kv) THEN TRUE
    ELSE IF tooManyErrors(m) THEN TRUE
    ELSE FALSE

resetStats(m, provider) ==
    [m EXCEPT !.storageStats.provider = provider,
              !.consecutiveErrors = 0,
              !.storageStats.reads = 0,
              !.storageStats.writes = 0,
              !.storageStats.errors = 0]

switchFromD1ToKV(m) ==
    IF m.env.USE_D1
    THEN LET e1 == [m.env EXCEPT !.USE_D1 = FALSE, !.USE_REDIS = FALSE]
         IN  resetStats([m EXCEPT !.env = e1, !.storage = createStorage(e1, "kv")], "kv")
    ELSE m

switchFromKVToRedis(m) ==
    IF ~m.env.USE_D1 /\ ~m.env.USE_REDIS /\ m.env.REDIS
    THEN LET e1 == [m.env EXCEPT !.USE_REDIS = TRUE]
         IN  resetStats([m EXCEPT !.env = e1, !.storage = createStorage(e1, "redis")], "redis")
    ELSE m

\* a policy check that also fails back to D1 when the last call succeeded
policyCheckFailBack(m) ==
    IF m.env.USE_D1 /\ shouldSwitchFromD1ToKV(m) THEN switchFromD1ToKV(m)
    ELSE IF ~m.env.USE_D1 /\ ~m.env.USE_REDIS /\ shouldSwitchFromKVToRedis(m)
         THEN switchFromKVToRedis(m)
    ELSE IF ~m.env.USE_D1 /\ m.env.D1_DB /\ m.env.STORAGE_PREFERENCE = "auto"
            /\ m.consecutiveErrors = 0 /\ m.storageStats.reads > 0
         THEN LET e1 == [m.env EXCEPT !.USE_D1 = TRUE, !.USE_REDIS = FALSE]
              IN  resetStats([m EXCEPT !.env = e1, !.storage = createStorage(e1, "d1")], "d1")
    ELSE m

\* "Check if we should switch storage before proceeding"
policyCheck(m) ==
    IF m.env.USE_D1 /\ shouldSwitchFromD1ToKV(m) THEN switchFromD1ToKV(m)
    ELSE IF ~m.env.USE_D1 /\ ~m.env.USE_REDIS /\ shouldSwitchFromKVToRedis(m)
         THEN switchFromKVToRedis(m)
    ELSE m

\* a switch condition that ignores the storage preference
switchOnFailureAnyMode(m, error) ==
    error.status = 429 \/ m.consecutiveErrors >= errorThreshold

\* a switch condition that ignores the status of the error
switchOnFailureThresholdOnly(m, error) ==
    /\ m.env.STORAGE_PREFERENCE = "auto"
    /\ m.consecutiveErrors >= errorThreshold

\* a switch condition that does not count a 404
switchOnFailureNot404(m, error) ==
    /\ m.env.STORAGE_PREFERENCE = "auto"
    /\ error.status # 404
    /\ (error.status = 429 \/ m.consecutiveErrors >= errorThreshold)

\* the condition of "switch ... permanently" in the catch blocks
switchOnFailure(m, error) ==
    /\ m.env.STORAGE_PREFERENCE = "auto"
    /\ (error.status = 429 \/ m.consecutiveErrors >= errorThreshold)

\* no second fallback
redisAvailableNever(m) == FALSE

\* "If KV also fails and Redis is available, try Redis"
redisAvailable(m) == m.env.REDIS

Access(tier, op, role, r) ==
    [tier |-> tier, op |-> op, role |-> role, ok |-> r.ok, error |-> r.error]

Result(m0, m, st, out, log) ==
    [m |-> m, st |-> st, out |-> out, log |-> log,
     topSwitch |-> policyCheck(m0) # m0,
     failSwitch |-> m.storageStats.provider # policyCheck(m0).storageStats.provider]

countRead(m) == [m EXCEPT !.storageStats.reads = @ + 1]
countWrite(m) == [m EXCEPT !.storageStats.writes = @ + 1]
\* a failure that does not count as consecutive
countErrorTotalOnly(m) == [m EXCEPT !.storageStats.errors = @ + 1]

countError(m) ==
    [m EXCEPT !.storageStats.errors = @ + 1, !.consecutiveErrors = @ + 1]
resetErrors(m) == [m EXCEPT !.consecutiveErrors = 0]

getTokens(m0, st, sessionType, fault) ==
    LET m1 == countRead(policyCheck(m0))
        first == ProviderGetTokens(m1.storage, st, sessionType, fault)
        a1 == Access(m1.storage, "get", "primary", first)
    IN  IF first.ok
        THEN Result(m0, resetErrors(m1), st, Ok(first.tokens), <<a1>>)
        ELSE
        LET m2 == countError(m1)
            error == first.error
        IN  IF m2.env.USE_D1
            THEN LET kv == ProviderGetTokens(createStorage(m2.env, "kv"), st, sessionType, fault)
                     a2 == Access("kv", "get", "fallback", kv)
                 IN  IF kv.ok
                     THEN Result(m0,
                                 IF switchOnFailure(m2, error) THEN switchFromD1ToKV(m2) ELSE m2,
                                 st, Ok(kv.tokens), <<a1, a2>>)
                     ELSE IF redisAvailable(m2)
                     THEN LET rd == ProviderGetTokens(createStorage(m2.env, "redis"), st,
                                                      sessionType, fault)
                              a3 == Access("redis", "get", "fallback", rd)
                          IN  IF rd.ok
                              THEN Result(m0, m2, st, Ok(rd.tokens), <<a1, a2, a3>>)
                              ELSE Result(m0, m2, st, Throw(error), <<a1, a2, a3>>)
                     ELSE Result(m0, m2, st, Throw(kv.error), <<a1, a2>>)
            ELSE IF ~m2.env.USE_REDIS /\ m2.env.REDIS
            THEN LET rd == ProviderGetTokens(createStorage(m2.env, "redis"), st,
                                             sessionType, fault)
                     a2 == Access("redis", "get", "fallback", rd)
                 IN  IF rd.ok
                     THEN Result(m0,
                                 IF switchOnFailure(m2, error) THEN switchFromKVToRedis(m2) ELSE m2,
                                 st, Ok(rd.tokens), <<a1, a2>>)
                     ELSE Result(m0, m2, st, Throw(error), <<a1, a2>>)
            ELSE Result(m0, m2, st, Throw(error), <<a1>>)

\* a backup that stops at KV
backupTiersKVOnly(m) ==
    IF m.env.STORAGE_PREFERENCE = "auto" /\ m.env.USE_D1 THEN <<"kv">> ELSE <<>>

\* the tiers updateTokens backs a successful write up to, in order
backupTiers(m) ==
    IF m.env.STORAGE_PREFERENCE = "auto"
    THEN IF m.env.USE_D1
         THEN IF m.env.REDIS THEN <<"kv", "redis">> ELSE <<"kv">>
         ELSE IF ~m.env.USE_REDIS /\ m.env.REDIS THEN <<"redis">>
         ELSE <<>>
    ELSE <<>>

backupRethrows(kvError) == TRUE

\* a failed backup is logged and swallowed
backupThrows(kvError) == FALSE

RECURSIVE backup(_, _, _, _, _)
backup(tiers, st, tokens, sessionType, fault) ==
    IF tiers = <<>>
    THEN [st |-> st, log |-> <<>>, ok |-> TRUE, error |-> NoErr]
    ELSE LET w == ProviderUpdateTokens(Head(tiers), st, tokens, sessionType, fault)
             a == Access(Head(tiers), "put", "backup", w)
         IN  IF ~w.ok /\ backupThrows(w.error)
             THEN [st |-> w.st, log |-> <<a>>, ok |-> FALSE, error |-> w.error]
             ELSE LET rest == backup(Tail(tiers), w.st, tokens, sessionType, fault)
                  IN  [st |-> rest.st, log |-> <<a>> \o rest.log,
                       ok |-> rest.ok, error |-> rest.error]

updateTokens(m0, st, tokens, sessionType, fault) ==
    LET m1 == countWrite(policyCheck(m0))
        first == ProviderUpdateTokens(m1.storage, st, tokens, sessionType, fault)
        a1 == Access(m1.storage, "put", "primary", first)
        m1ok == resetErrors(m1)
        b == backup(backupTiers(m1ok), first.st, tokens, sessionType, fault)
    IN  IF first.ok /\ b.ok
        THEN Result(m0, m1ok, b.st, Ok(tokens), <<a1>> \o b.log)
        ELSE
        LET mf == IF first.ok THEN m1ok ELSE m1
            stf == IF first.ok THEN b.st ELSE st
            logf == IF first.ok THEN <<a1>> \o b.log ELSE <<a1>>
            error == IF first.ok THEN b.error ELSE first.error
            m2 == countError(mf)
        IN  IF m2.env.USE_D1
            THEN LET kv == ProviderUpdateTokens(createStorage(m2.env, "kv"), stf, tokens,
                                                sessionType, fault)
                     a2 == Access("kv", "put", "fallback", kv)
                 IN  IF kv.ok
                     THEN Result(m0,
                                 IF switchOnFailure(m2, error) THEN switchFromD1ToKV(m2) ELSE m2,
                                 kv.st, Ok(tokens), logf \o <<a2>>)
                     ELSE IF redisAvailable(m2)
                     THEN LET rd == ProviderUpdateTokens(createStorage(m2.env, "redis"), stf,
                                                         tokens, sessionType, fault)
                              a3 == Access("redis", "put", "fallback", rd)
                          IN  IF rd.ok
                              THEN Result(m0, m2, rd.st, Ok(tokens), logf \o <<a2, a3>>)
                              ELSE Result(m0, m2, stf, Throw(error), logf \o <<a2, a3>>)
                     ELSE Result(m0, m2, stf, Throw(kv.error), logf \o <<a2>>)
            ELSE IF ~m2.env.USE_REDIS /\ m2.env.REDIS
            THEN LET rd == ProviderUpdateTokens(createStorage(m2.env, "redis"), stf, tokens,
                                                sessionType, fault)
                     a2 == Access("redis", "put", "fallback", rd)
                 IN  IF rd.ok
                     THEN Result(m0,
                                 IF switchOnFailure(m2, error) THEN switchFromKVToRedis(m2) ELSE m2,
                                 rd.st, Ok(tokens), logf \o <<a2>>)
                     ELSE Result(m0, m2, stf, Throw(error), logf \o <<a2>>)
            ELSE Result(m0, m2, stf, Throw(error), logf)

-----------------------------------------------------------------------------
(* TokenManager: headers and token refresh *)

getHeadersForSessionAlwaysHost(sessionType, tokens) ==
    [h \in {"X-Tidal-Token", "Authorization", "Connection", "Accept-Encoding",
            "User-Agent", "Host"} |->
        CASE h = "X-Tidal-Token" -> CLIENT_IDS[sessionType]
          [] h = "Authorization" -> "Bearer " \o tokens.access_token
          [] h = "Connection" -> "Keep-Alive"
          [] h = "Accept-Encoding" -> "gzip"
          [] h = "User-Agent" -> "TIDAL_ANDROID/1039 okhttp/3.14.9"
          [] OTHER -> "api.tidal.com"]

getHeadersForSession(sessionType, tokens) ==
    LET base == {"X-Tidal-Token", "Authorization", "Connection", "Accept-Encoding",
                 "User-Agent"}
        names == IF sessionType # TV THEN base \cup {"Host"} ELSE base
    IN  [h \in names |->
            CASE h = "X-Tidal-Token" -> CLIENT_IDS[sessionType]
              [] h = "Authorization" -> "Bearer " \o tokens.access_token
              [] h = "Connection" -> "Keep-Alive"
              [] h = "Accept-Encoding" -> "gzip"
              [] h = "User-Agent" -> "TIDAL_ANDROID/1039 okhttp/3.14.9"
              [] OTHER -> "api.tidal.com"]

\* a response of the authorization endpoint; refresh_token "" when it sends none
AuthResponse(ok, a, r) ==
    [ok |-> ok, access_token |-> a, refresh_token |-> r, expires_in |-> 1,
     countryCode |-> "US"]

mobileRefreshTokenFromResponse(refreshToken, data) == data.refresh_token

\* the refresh token kept in the record refreshMobileToken builds
mobileRefreshToken(refreshToken, data) == refreshToken

\* refreshMobileToken(refreshToken, sessionType), given the response and the clock
refreshMobileToken(refreshToken, sessionType, data, t) ==
    IF ~data.ok
    THEN Throw(Err(500, "auth"))
    ELSE Ok([access_token |-> data.access_token,
             refresh_token |-> mobileRefreshToken(refreshToken, data),
             expires |-> toISOString(t + data.expires_in * 1000),
             country_code |-> data.countryCode,
             updated_at |-> toISOString(t)])

\* the stale refresh token is always kept
tvRefreshTokenStale(tvData, tokens) == tokens.refresh_token

\* tvData.refresh_token || tokens.refresh_token
tvRefreshToken(tvData, tokens) ==
    IF tvData.refresh_token # "" THEN tvData.refresh_token ELSE tokens.refresh_token

\* the first half of refreshTokens: the television exchange and the record it builds
refreshTvToken(tokens, tvData, t) ==
    IF ~tvData.ok
    THEN Throw(Err(500, "auth"))
    ELSE Ok([access_token |-> tvData.access_token,
             refresh_token |-> tvRefreshToken(tvData, tokens),
             expires |-> toISOString(t + tvData.expires_in * 1000),
             country_code |-> tvData.countryCode,
             updated_at |-> toISOString(t)])

\* TidalAPI.makeRequest: "Check if tokens are expired"
isExpired(t, tokens) == t > getTime(tokens.expires)

isAuthErrorOnly401(status) == status = 401

\* "Try token refresh on auth errors"
isAuthError(status) == status = 401 \/ status = 403

-----------------------------------------------------------------------------
(* The state machine *)

M == Manager(env, storage, storageStats, consecutiveErrors)
S == Stores(d1Table, kvNamespace, redisStore, d1Schema)

Idle == mr.pc \in {"idle", "done"} /\ rf.pc \in {"idle", "done"}

\* the manager and the backends after a getTokens / updateTokens call r
Apply(r) ==
    /\ env' = r.m.env
    /\ storage' = r.m.storage
    /\ storageStats' = r.m.storageStats
    /\ consecutiveErrors' = r.m.consecutiveErrors
    /\ d1Table' = r.st.d1
    /\ d1Schema' = r.st.schema
    /\ kvNamespace' = r.st.kv
    /\ redisStore' = r.st.redis

CallRec(op, sessionType, tokens, r) ==
    [op |-> op, sessionType |-> sessionType, arg |-> tokens, out |-> r.out,
     log |-> r.log, topSwitch |-> r.topSwitch, failSwitch |-> r.failSwitch,
     before |-> [provider |-> storageStats.provider, storage |-> storage,
                 reads |-> storageStats.reads, writes |-> storageStats.writes,
                 errors |-> storageStats.errors,
                 consecutiveErrors |-> consecutiveErrors]]

NoCall ==
    [op |-> "none", sessionType |-> TV, arg |-> NoTokens, out |-> Ok(NoTokens),
     log |-> <<>>, topSwitch |-> FALSE, failSwitch |-> FALSE,
     before |-> [provider |-> "kv", storage |-> "kv", reads |-> 0, writes |-> 0,
                 errors |-> 0, consecutiveErrors |-> 0]]

\* the statistics entry of a backend that is not bound
NullStats == [reads |-> 0, writes |-> 0, errors |-> 0, status |-> "null"]

\* no status was asked for yet
NoStatus ==
    [taken |-> FALSE, calls |-> 0, primary |-> "kv",
     statistics |-> [t \in StorageProviderType |-> NullStats]]

NoRefresh ==
    [pc |-> "idle", sessionType |-> TV, tokens |-> NoTokens, tvTokens |-> NoTokens,
     out |-> Ok(NoTokens), exchanges |-> 0, tvSent |-> ""]

NoRequest ==
    [pc |-> "idle", sessionType |-> TV, tokens |-> NoTokens, read |-> NoTokens,
     clock |-> 0, refreshes |-> 0, requests |-> 0, staleRefresh |-> FALSE,
     authRefresh |-> FALSE, headers |-> getHeadersForSession(TV, NoTokens),
     sent |-> NoTokens, status |-> <<>>, out |-> Ok(NoTokens)]

\* ---- direct calls of the manager

GetTokens(sessionType, fault) ==
    /\ Idle
    /\ calls < MaxCalls
    /\ \E r \in {getTokens(M, S, sessionType, fault)} :
           /\ Apply(r)
           /\ call' = CallRec("getTokens", sessionType, NoTokens, r)
    /\ calls' = calls + 1
    /\ UNCHANGED <<rf, mr, written, storageStatus>>

UpdateTokens(tokens, sessionType, fault) ==
    /\ Idle
    /\ calls < MaxCalls
    /\ \E r \in {updateTokens(M, S, tokens, sessionType, fault)} :
           /\ Apply(r)
           /\ call' = CallRec("updateTokens", sessionType, tokens, r)
           /\ written' = IF r.out.ok THEN [written EXCEPT ![sessionType] = tokens]
                         ELSE written
    /\ calls' = calls + 1
    /\ UNCHANGED <<rf, mr, storageStatus>>

\* ---- TidalAPI.makeRequest, one action per stretch between two upstream calls

StartRefresh(sessionType, tokens) ==
    [pc |-> "tv", sessionType |-> sessionType, tokens |-> tokens,
     tvTokens |-> NoTokens, out |-> Ok(NoTokens), exchanges |-> 0, tvSent |-> ""]

\* makeRequest up to the first upstream call: getTokens and the expiry check
MakeRequest(sessionType, fault, t) ==
    /\ Idle
    /\ calls < MaxRequests
    /\ calls' = calls + 1
    /\ UNCHANGED <<written, storageStatus>>
    /\ \E r \in {getTokens(M, S, sessionType, fault)} :
       LET base == [NoRequest EXCEPT !.sessionType = sessionType, !.clock = t,
                                    !.read = r.out.tokens, !.tokens = r.out.tokens]
       IN  /\ Apply(r)
           /\ call' = CallRec("getTokens", sessionType, NoTokens, r)
           /\ IF ~r.out.ok
              THEN /\ mr' = [base EXCEPT !.pc = "done", !.out = Throw(r.out.error)]
                   /\ rf' = NoRefresh
              ELSE IF isExpired(t, r.out.tokens)
              THEN /\ mr' = [base EXCEPT !.pc = "refresh1", !.refreshes = 1,
                                         !.staleRefresh = TRUE]
                   /\ rf' = StartRefresh(sessionType, r.out.tokens)
              ELSE /\ mr' = [base EXCEPT !.pc = "request1"]
                   /\ rf' = NoRefresh

\* refreshTokens returns or throws: makeRequest goes on
Resume(out) ==
    IF ~out.ok
    THEN [mr EXCEPT !.pc = "done", !.out = Throw(out.error)]
    ELSE [mr EXCEPT !.pc = IF mr.pc = "refresh1" THEN "request1" ELSE "request2",
                    !.tokens = out.tokens]

\* refreshTokens: the television exchange and the write of the television record
RefreshTV(tvData, t, fault) ==
    /\ rf.pc = "tv"
    /\ \E x \in {refreshTvToken(rf.tokens, tvData, t)},
          rf1 \in {[rf EXCEPT !.exchanges = @ + 1, !.tvSent = tvData.refresh_token]} :
           IF ~x.ok
           THEN /\ rf' = [rf1 EXCEPT !.pc = "done", !.out = Throw(Err(500, "refresh"))]
                /\ mr' = Resume(Throw(Err(500, "refresh")))
                /\ UNCHANGED <<mgrVars, storeVars, call, written>>
           ELSE \E u \in {updateTokens(M, S, x.tokens, TV, fault)} :
                    /\ Apply(u)
                    /\ call' = CallRec("updateTokens", TV, x.tokens, u)
                    /\ written' = IF u.out.ok THEN [written EXCEPT ![TV] = x.tokens]
                                  ELSE written
                    /\ IF ~u.out.ok
                       THEN /\ rf' = [rf1 EXCEPT !.pc = "done", !.tvTokens = x.tokens,
                                                 !.out = Throw(Err(500, "refresh"))]
                            /\ mr' = Resume(Throw(Err(500, "refresh")))
                       ELSE IF rf.sessionType # TV
                       THEN /\ rf' = [rf1 EXCEPT !.pc = "mobile", !.tvTokens = x.tokens]
                            /\ mr' = mr
                       ELSE /\ rf' = [rf1 EXCEPT !.pc = "done", !.tvTokens = x.tokens,
                                                 !.out = Ok(x.tokens)]
                            /\ mr' = Resume(Ok(x.tokens))
    /\ UNCHANGED <<calls, storageStatus>>

\* a mobile exchange that is issued again
RefreshMobileAgain(data, t, fault) ==
    /\ rf.pc = "mobile"
    /\ rf.exchanges <= 2
    /\ rf' = [rf EXCEPT !.exchanges = @ + 1]
    /\ UNCHANGED <<mgrVars, storeVars, call, mr, written, calls, storageStatus>>

\* refreshTokens: the mobile exchange and the write of the mobile record
RefreshMobile(data, t, fault) ==
    /\ rf.pc = "mobile"
    /\ \E x \in {refreshMobileToken(rf.tvTokens.refresh_token, rf.sessionType, data, t)},
          rf1 \in {[rf EXCEPT !.exchanges = @ + 1]} :
           IF ~x.ok
           THEN /\ rf' = [rf1 EXCEPT !.pc = "done", !.out = Throw(Err(500, "refresh"))]
                /\ mr' = Resume(Throw(Err(500, "refresh")))
                /\ UNCHANGED <<mgrVars, storeVars, call, written>>
           ELSE \E u \in {updateTokens(M, S, x.tokens, rf.sessionType, fault)} :
                    /\ Apply(u)
                    /\ call' = CallRec("updateTokens", rf.sessionType, x.tokens, u)
                    /\ written' = IF u.out.ok
                                  THEN [written EXCEPT ![rf.sessionType] = x.tokens]
                                  ELSE written
                    /\ IF ~u.out.ok
                       THEN /\ rf' = [rf1 EXCEPT !.pc = "done",
                                                 !.out = Throw(Err(500, "refresh"))]
                            /\ mr' = Resume(Throw(Err(500, "refresh")))
                       ELSE /\ rf' = [rf1 EXCEPT !.pc = "done", !.out = Ok(x.tokens)]
                            /\ mr' = Resume(Ok(x.tokens))
    /\ UNCHANGED <<calls, storageStatus>>

\* the first upstream resource request and what makeRequest does with its status
Request1(status) ==
    /\ mr.pc = "request1"
    /\ rf.pc \in {"idle", "done"}
    /\ LET m1 == [mr EXCEPT !.requests = @ + 1, !.status = Append(@, status),
                            !.headers = getHeadersForSession(mr.sessionType, mr.tokens),
                            !.sent = mr.tokens]
       IN  IF status = 200
           THEN mr' = [m1 EXCEPT !.pc = "done", !.out = Ok(mr.tokens)] /\ rf' = rf
           ELSE IF isAuthError(status)
           THEN /\ mr' = [m1 EXCEPT !.pc = "refresh2", !.refreshes = @ + 1,
                                    !.authRefresh = TRUE]
                /\ rf' = StartRefresh(mr.sessionType, mr.tokens)
           ELSE mr' = [m1 EXCEPT !.pc = "done", !.out = Throw(Err(status, "api"))] /\ rf' = rf
    /\ UNCHANGED <<mgrVars, storeVars, call, written, storageStatus, calls>>

\* the retry after the refresh
Request2(status) ==
    /\ mr.pc = "request2"
    /\ rf.pc = "done"
    /\ LET m1 == [mr EXCEPT !.requests = @ + 1, !.status = Append(@, status),
                            !.headers = getHeadersForSession(mr.sessionType, mr.tokens),
                            !.sent = mr.tokens]
       IN  IF status = 200
           THEN mr' = [m1 EXCEPT !.pc = "done", !.out = Ok(mr.tokens)]
           ELSE mr' = [m1 EXCEPT !.pc = "done", !.out = Throw(Err(status, "api"))]
    /\ UNCHANGED <<mgrVars, storeVars, call, rf, written, storageStatus, calls>>

-----------------------------------------------------------------------------
(* Initial states and inputs *)

Clock == 0 .. MaxNow
Statuses == {200, 401, 403, 500}

\* records handed to updateTokens, and the record found in a filled backend
rec0 == TokenData("a1", "r1", 1, 0)
InputTokens == {TokenData("a2", "r2", 1001, 1)}

TvResponses ==
    {AuthResponse(FALSE, "", ""), AuthResponse(TRUE, "a3", ""),
     AuthResponse(TRUE, "a3", "r3")}
MobileResponses == {AuthResponse(FALSE, "", ""), AuthResponse(TRUE, "a4", "")}

\* the bindings and [vars] of wrangler.toml
Configs ==
    {[D1_DB |-> d, REDIS |-> r, USE_D1 |-> FALSE, USE_REDIS |-> FALSE,
      STORAGE_PREFERENCE |-> p] :
        d \in BOOLEAN, r \in BOOLEAN, p \in {"", "auto", "d1", "kv", "redis"}}

\* the storage initialisation middleware of index.ts
middleware(e) ==
    LET e1 == IF e.STORAGE_PREFERENCE = "" THEN [e EXCEPT !.STORAGE_PREFERENCE = "auto"] ELSE e
        e2 == [e1 EXCEPT !.USE_D1 =
                  e1.D1_DB /\ e1.STORAGE_PREFERENCE \in {"d1", "auto"}]
    IN  IF e2.REDIS
        THEN [e2 EXCEPT !.USE_REDIS =
                 ~e2.USE_D1 /\ e2.STORAGE_PREFERENCE \in {"redis", "auto"}]
        ELSE e2

\* a manager whose counters have run up to StartGap below a limit of its tier
\* (after that many calls that succeeded)
Aged(m) ==
    IF m.storage \in {"d1", "kv"}
    THEN {[m EXCEPT !.storageStats.reads =
               readThreshold(storageLimits[m.storage]) - StartGap],
          [m EXCEPT !.storageStats.writes =
               writeThreshold(storageLimits[m.storage]) - StartGap]}
    ELSE {}

\* a manager StartGap failed reads away from the error threshold (after
\* errorThreshold - StartGap reads in a row that failed and did not switch)
Troubled(m) ==
    IF StartGap < errorThreshold
    THEN {[m EXCEPT !.storageStats.reads = errorThreshold - StartGap,
                    !.storageStats.errors = errorThreshold - StartGap,
                    !.consecutiveErrors = errorThreshold - StartGap]}
    ELSE {}

\* the managers a configuration can have: new, demoted, with or without age
Managers(e, warm) ==
    LET m0 == constructor(middleware(e))
        m1 == switchFromD1ToKV(m0)
        m2 == switchFromKVToRedis(m1)
        auto == m0.env.STORAGE_PREFERENCE = "auto"
        tiers == {m0} \cup (IF auto THEN {m1, m2} ELSE {})
    IN  tiers \cup (IF warm THEN UNION {Aged(m) : m \in tiers} ELSE {})
              \cup UNION {Troubled(m) : m \in tiers}

Filled(tier) ==
    LET st == Stores({}, {}, {}, {"tokens"})
        f == [t \in StorageProviderType |-> "ok"]
        s1 == ProviderUpdateTokens(tier, st, rec0, TV, f).st
        s2 == ProviderUpdateTokens(tier, s1, rec0, MOBILE_DEFAULT, f).st
    IN  ProviderUpdateTokens(tier, s2, rec0, MOBILE_ATMOS, f).st[tier]

Init ==
    \E e \in Configs, warm \in BOOLEAN :
      \E m \in Managers(e, warm) :
        /\ env = m.env
        /\ storage = m.storage
        /\ storageStats = m.storageStats
        /\ consecutiveErrors = m.consecutiveErrors
        /\ d1Table = IF warm /\ e.D1_DB THEN Filled("d1") ELSE {}
        /\ d1Schema = IF e.D1_DB THEN {"tokens"} ELSE {}
        /\ kvNamespace = IF warm THEN Filled("kv") ELSE {}
        /\ redisStore = IF warm /\ e.REDIS THEN Filled("redis") ELSE {}
        /\ written = [p \in SessionType |-> IF warm THEN rec0 ELSE NoTokens]
        /\ call = NoCall
        /\ rf = NoRefresh
        /\ mr = NoRequest
        /\ storageStatus = NoStatus
        /\ calls = 0

\* the faults the bindings of configuration e can raise on one call
FaultMaps(e) ==
    {f \in FaultMap : /\ ~e.D1_DB => f["d1"] = "ok"
                      /\ ~e.REDIS => f["redis"] = "ok"
                      /\ f["redis"] # "err429"}

\* the backends all answer, or none does
Outage == {[t \in StorageProviderType |-> "ok"], [t \in StorageProviderType |-> "err"]}

\* the TokenManager called directly
Next ==
    \/ \E p \in SessionType, f \in FaultMaps(env) : GetTokens(p, f)
    \/ \E tokens \in InputTokens, p \in SessionType, f \in FaultMaps(env) :
          UpdateTokens(tokens, p, f)

Spec == Init /\ [][Next]_vars

\* the TokenManager called by TidalAPI.makeRequest
NextRequest ==
    \/ \E p \in SessionType, f \in Outage, t \in Clock : MakeRequest(p, f, t)
    \/ \E d \in TvResponses, f \in Outage : RefreshTV(d, mr.clock, f)
    \/ \E d \in MobileResponses, f \in Outage : RefreshMobile(d, mr.clock, f)
    \/ \E s \in Statuses : Request1(s)
    \/ \E s \in Statuses : Request2(s)

\* TidalAPI's constructor makes a new TokenManager: its counters start at zero
InitRequest ==
    /\ Init
    /\ storageStats.reads = 0 /\ storageStats.writes = 0 /\ storageStats.errors = 0
    /\ consecutiveErrors = 0

SpecRequest == InitRequest /\ [][NextRequest]_vars

\* ---- one request after another: each makes its own TidalAPI and TokenManager

\* makeRequest of a request that follows a finished one, on a new manager
FollowingRequest(sessionType, fault, t) ==
    /\ mr.pc = "done"
    /\ rf.pc \in {"idle", "done"}
    /\ calls <= MaxRequests
    /\ calls' = calls + 1
    /\ UNCHANGED <<written, storageStatus>>
    /\ \E r \in {getTokens(constructor(middleware(env)), S, sessionType, fault)} :
       LET base == [NoRequest EXCEPT !.sessionType = sessionType, !.clock = t,
                                    !.read = r.out.tokens, !.tokens = r.out.tokens]
       IN  /\ Apply(r)
           /\ call' = CallRec("getTokens", sessionType, NoTokens, r)
           /\ IF ~r.out.ok
              THEN /\ mr' = [base EXCEPT !.pc = "done", !.out = Throw(r.out.error)]
                   /\ rf' = NoRefresh
              ELSE IF isExpired(t, r.out.tokens)
              THEN /\ mr' = [base EXCEPT !.pc = "refresh1", !.refreshes = 1,
                                         !.staleRefresh = TRUE]
                   /\ rf' = StartRefresh(sessionType, r.out.tokens)
              ELSE /\ mr' = [base EXCEPT !.pc = "request1"]
                   /\ rf' = NoRefresh

NextRequests ==
    \/ NextRequest
    \/ \E p \in SessionType, f \in Outage, t \in Clock : FollowingRequest(p, f, t)

SpecRequests == InitRequest /\ [][NextRequests]_vars

\* ---- GET /api/storage/status, and other requests of the worker on the same Env

\* the statistics StorageStatusController reports for backend t from the counters
\* stats of its manager, after a health check of t that meets fault f
statistics(e, stats, t, f) ==
    IF (t = "d1" /\ ~e.D1_DB) \/ (t = "redis" /\ ~e.REDIS)
    THEN NullStats
    ELSE [reads |-> IF stats.provider = t THEN stats.reads ELSE 0,
          writes |-> IF stats.provider = t THEN stats.writes ELSE 0,
          errors |-> (IF stats.provider = t THEN stats.errors ELSE 0)
                     + (IF f # "ok" THEN 1 ELSE 0),
          status |-> IF f # "ok" THEN "error" ELSE "operational"]

\* a status request: the middleware, then StorageStatusController.getStorageStatus,
\* which makes a TokenManager of its own on the shared Env and checks the backends
GetStorageStatus(fault) ==
    /\ Idle
    /\ \E tokenManager \in {constructor(middleware(env))} :
         LET stats == tokenManager.storageStats
             e == tokenManager.env
         IN  /\ env' = e
             /\ storageStatus' =
                   [taken |-> TRUE, calls |-> calls,
                    primary |-> IF e.USE_D1 THEN "d1"
                                ELSE IF e.USE_REDIS THEN "redis" ELSE "kv",
                    statistics |-> [t \in StorageProviderType |->
                                       statistics(e, stats, t, fault[t])]]
             /\ d1Schema' = IF e.D1_DB /\ fault["d1"] = "ok"
                            THEN d1Schema \cup {"health_checks"} ELSE d1Schema
    /\ UNCHANGED <<storage, storageStats, consecutiveErrors, d1Table, kvNamespace,
                   redisStore, call, rf, mr, written, calls>>

\* a request handled while the manager waits: the middleware runs on the shared Env
Middleware ==
    /\ env' = middleware(env)
    /\ env' # env
    /\ UNCHANGED <<storage, storageStats, consecutiveErrors, storeVars, call, rf, mr,
                   written, storageStatus, calls>>

\* a request handled while the manager waits: the middleware runs and a controller
\* makes a TidalAPI, whose TokenManager is constructed on the shared Env
OtherRequest ==
    /\ env' = constructor(middleware(env)).env
    /\ env' # env
    /\ UNCHANGED <<storage, storageStats, consecutiveErrors, storeVars, call, rf, mr,
                   written, storageStatus, calls>>

\* the manager of another request switches: it writes the flags of the shared Env
OtherSwitch ==
    /\ env.STORAGE_PREFERENCE = "auto"
    /\ \/ env' = switchFromD1ToKV(M).env
       \/ env' = switchFromKVToRedis(M).env
    /\ env' # env
    /\ UNCHANGED <<storage, storageStats, consecutiveErrors, storeVars, call, rf, mr,
                   written, storageStatus, calls>>

\* one manager serving token operations, and status requests
NextStatus ==
    \/ Next
    \/ \E f \in Outage : GetStorageStatus(f)

SpecStatus == Init /\ [][NextStatus]_vars

\* one manager serving token operations while other requests run on the same Env
NextShared ==
    \/ Next
    \/ Middleware
    \/ OtherRequest
    \/ OtherSwitch

SpecShared == Init /\ [][NextShared]_vars

\* ---- the D1 adapter called directly, on a database with or without the tokens table

\* the record of a call of the adapter under fault f
AdapterCall(op, sessionType, tokens, f, out) ==
    [fault |-> f] @@
    CallRec(op, sessionType, tokens,
            [out |-> out, log |-> <<Access("d1", op, "primary", out)>>,
             topSwitch |-> FALSE, failSwitch |-> FALSE])

D1GetTokens(sessionType, f) ==
    /\ calls < MaxCalls
    /\ \E x \in {D1StorageGetTokens(d1Schema, d1Table, sessionType, f)} :
           call' = AdapterCall("D1Storage.getTokens", sessionType, NoTokens, f, x)
    /\ d1Schema' = D1StorageInitialize(d1Schema)
    /\ calls' = calls + 1
    /\ UNCHANGED <<mgrVars, d1Table, kvNamespace, redisStore, rf, mr, written,
                   storageStatus>>

D1UpdateTokens(tokens, sessionType, f) ==
    /\ calls < MaxCalls
    /\ \E x \in {D1StorageUpdateTokens(d1Schema, d1Table, tokens, sessionType, f)} :
           /\ call' = AdapterCall("D1Storage.updateTokens", sessionType, tokens, f,
                                  IF x.ok THEN Ok(tokens) ELSE Throw(x.error))
           /\ d1Table' = x.entries
           /\ d1Schema' = x.schema
           /\ written' = IF x.ok THEN [written EXCEPT ![sessionType] = tokens] ELSE written
    /\ calls' = calls + 1
    /\ UNCHANGED <<mgrVars, kvNamespace, redisStore, rf, mr, storageStatus>>

\* a D1 database before the migration (no tables) or after it, empty or filled
InitD1 ==
    \E e \in {c \in Configs : c.D1_DB}, tables \in {{}, {"tokens"}}, warm \in BOOLEAN :
      LET m == constructor(middleware(e))
          filled == warm /\ tables # {}
      IN  /\ env = m.env
          /\ storage = m.storage
          /\ storageStats = m.storageStats
          /\ consecutiveErrors = m.consecutiveErrors
          /\ d1Schema = tables
          /\ d1Table = IF filled THEN Filled("d1") ELSE {}
          /\ kvNamespace = {}
          /\ redisStore = {}
          /\ written = [p \in SessionType |-> IF filled THEN rec0 ELSE NoTokens]
          /\ call = NoCall
          /\ rf = NoRefresh
          /\ mr = NoRequest
          /\ storageStatus = NoStatus
          /\ calls = 0

NextD1 ==
    \/ \E p \in SessionType, f \in Faults : D1GetTokens(p, f)
    \/ \E tokens \in InputTokens, p \in SessionType, f \in Faults :
          D1UpdateTokens(tokens, p, f)

SpecD1 == InitD1 /\ [][NextD1]_vars

\* ---- the manager called while its top tier keeps failing

\* the tier the constructor chooses on this environment
Top == constructor(env).storage

\* a getTokens call that finds the top tier failing: its binding throws or it has no
\* record of the session type; the policy needs errorThreshold failures and the call
\* after them
SustainedGetTokens(sessionType, fault) ==
    /\ calls <= errorThreshold
    /\ ~ProviderGetTokens(Top, S, sessionType, fault).ok
    /\ \E r \in {getTokens(M, S, sessionType, fault)} :
           /\ Apply(r)
           /\ call' = CallRec("getTokens", sessionType, NoTokens, r)
    /\ calls' = calls + 1
    /\ UNCHANGED <<rf, mr, written, storageStatus>>

SustainedUpdateTokens(tokens, sessionType, fault) ==
    /\ calls <= errorThreshold
    /\ fault[Top] # "ok"
    /\ \E r \in {updateTokens(M, S, tokens, sessionType, fault)} :
           /\ Apply(r)
           /\ call' = CallRec("updateTokens", sessionType, tokens, r)
           /\ written' = IF r.out.ok THEN [written EXCEPT ![sessionType] = tokens]
                         ELSE written
    /\ calls' = calls + 1
    /\ UNCHANGED <<rf, mr, storageStatus>>

\* a new manager in auto mode on a tier that has a lower tier bound; each bound
\* backend holds the records or holds none
InitSustained ==
    \E e \in Configs, filled \in SUBSET StorageProviderType :
      LET m == constructor(middleware(e))
      IN  /\ m.env.STORAGE_PREFERENCE = "auto"
          /\ m.storage = "d1" \/ (m.storage = "kv" /\ e.REDIS)
          /\ "d1" \in filled => e.D1_DB
          /\ "redis" \in filled => e.REDIS
          /\ env = m.env
          /\ storage = m.storage
          /\ storageStats = m.storageStats
          /\ consecutiveErrors = m.consecutiveErrors
          /\ d1Table = IF "d1" \in filled THEN Filled("d1") ELSE {}
          /\ d1Schema = IF e.D1_DB THEN {"tokens"} ELSE {}
          /\ kvNamespace = IF "kv" \in filled THEN Filled("kv") ELSE {}
          /\ redisStore = IF "redis" \in filled THEN Filled("redis") ELSE {}
          /\ written = [p \in SessionType |-> NoTokens]
          /\ call = NoCall
          /\ rf = NoRefresh
          /\ mr = NoRequest
          /\ storageStatus = NoStatus
          /\ calls = 0

NextSustained ==
    \/ \E p \in SessionType, f \in FaultMaps(env) : SustainedGetTokens(p, f)
    \/ \E tokens \in InputTokens, p \in SessionType, f \in FaultMaps(env) :
          SustainedUpdateTokens(tokens, p, f)

SpecSustained == InitSustained /\ [][NextSustained]_vars

-----------------------------------------------------------------------------
(* Properties *)

rank(tier) == CASE tier = "d1" -> 1 [] tier = "kv" -> 2 [] OTHER -> 3
NextLower(tier) == IF tier = "d1" THEN "kv" ELSE "redis"
Auto == env.STORAGE_PREFERENCE = "auto"
\* a tier below the given one is bound
LowerConfigured(tier) == tier = "d1" \/ (tier = "kv" /\ env.REDIS)
Called == call.op # "none"
PrimaryOk == call.log[1].ok
Zeroed == storageStats.reads = 0 /\ storageStats.writes = 0 /\ storageStats.errors = 0

\* the counters of the tier that was active when the call began had reached 95%
AtQuota(b) ==
    /\ b.storage \in {"d1", "kv"}
    /\ \/ b.reads * 100 >= storageLimits[b.storage].reads * 95
       \/ b.writes * 100 >= storageLimits[b.storage].writes * 95

\* C1: in auto mode, a call that begins with the active tier's reads or writes at 95%
\* of its quota, and with a lower tier bound, switches first: its read or write goes
\* to the next lower tier and no access of the call goes to the original tier.
C1_QuotaDemotesBeforeStorage ==
    (Called /\ Auto /\ AtQuota(call.before) /\ LowerConfigured(call.before.storage)) =>
        /\ call.topSwitch
        /\ call.log[1].role = "primary"
        /\ call.log[1].tier = NextLower(call.before.storage)
        /\ \A i \in DOMAIN call.log : call.log[i].tier # call.before.storage

C1_Witness ==
    /\ call.op = "updateTokens" /\ Auto
    /\ call.before.storage = "d1"
    /\ call.before.writes = 95000
    /\ call.log[1].tier = "kv" /\ call.log[1].ok
    /\ \A r \in Lookup(kvNamespace, getTokenKey(call.sessionType)) :
          r.value = JSONstringify(call.arg)
    /\ \A r \in Lookup(d1Table, getTokenKey(call.sessionType)) :
          r.value # JSONstringify(call.arg)

\* the third failure in a row on the tier that stays active through the top of the call
ThirdFailure ==
    /\ Called /\ Auto /\ LowerConfigured(call.before.storage)
    /\ call.before.consecutiveErrors = errorThreshold - 1
    /\ ~call.topSwitch
    /\ ~PrimaryOk

\* C2 (as claimed): once 3 operations in a row have failed on the active tier, the
\* tier has been demoted exactly once and reads, writes and errors are zero.
C2_DemotedAtThirdFailure ==
    ThirdFailure => (call.failSwitch /\ storage = NextLower(call.before.storage) /\ Zeroed)

\* C2 (amended): the demotion that 3 failures in a row cause happens once, either in
\* the third failing call, when its fallback on the next lower tier succeeded (the
\* counters are zero on return), or else at the top of the next call, before that call
\* touches storage (the counters are reset before the call's own read or write counts).
C2_DemotedOnceByNextCall ==
    /\ ThirdFailure =>
          IF call.log[2].ok
          THEN /\ call.failSwitch /\ storage = NextLower(call.before.storage)
               /\ Zeroed /\ consecutiveErrors = 0
          ELSE /\ ~call.failSwitch /\ storage = call.before.storage
               /\ consecutiveErrors = errorThreshold
    /\ (Called /\ Auto /\ LowerConfigured(call.before.storage)
        /\ call.before.consecutiveErrors >= errorThreshold) =>
          /\ call.topSwitch
          /\ call.log[1].tier = NextLower(call.before.storage)
          /\ IF call.failSwitch
             THEN Zeroed
             ELSE /\ storage = NextLower(call.before.storage)
                  /\ storageStats.reads + storageStats.writes = 1
                  /\ storageStats.errors = IF PrimaryOk THEN 0 ELSE 1

C2_Witness ==
    /\ Called /\ Auto
    /\ call.before.storage = "d1"
    /\ call.before.consecutiveErrors = errorThreshold
    /\ call.topSwitch /\ storage = "kv" /\ storageStats.reads = 1

\* C3: the active tier of a manager only moves down the order D1, KV, Redis.
C3_TierOnlyMovesDown ==
    Called => rank(storage) >= rank(call.before.storage)

C3_Witness ==
    Called /\ call.before.storage = "d1" /\ storage = "kv" /\ call.failSwitch

\* C4: an updateTokens call whose write on the active tier succeeded returns
\* successfully, whichever backup writes failed.
C4_BackupFailureSwallowed ==
    (call.op = "updateTokens" /\ PrimaryOk) => call.out.ok

C4_Witness ==
    /\ call.op = "updateTokens" /\ PrimaryOk /\ call.out.ok
    /\ Len(call.log) = 3
    /\ \A i \in 2 .. 3 : call.log[i].role = "backup" /\ ~call.log[i].ok

KVOnly == ~env.D1_DB /\ ~env.REDIS
\* what a read of session type p gives when the last record written for p is w
Expected(w) == IF w = NoTokens THEN Throw(Err(404, "kv")) ELSE Ok(w)

\* C5: with only KV bound, a read of p answers 404 while nothing was written for p and
\* otherwise the last record written for p, whatever was written for other session types.
C5_KVReadsLastWrite ==
    KVOnly =>
        /\ \A p \in SessionType :
              KVStorageGetTokens(kvNamespace, p, "ok") = Expected(written[p])
        /\ (call.op = "getTokens" /\ call.log[1].error.status \in {0, 404}
            /\ (call.log[1].ok \/ call.log[1].error.status = 404)) =>
              call.out = Expected(written[call.sessionType])

C5_Witness ==
    /\ KVOnly /\ call.op = "getTokens" /\ call.out.ok
    /\ call.out.tokens = written[call.sessionType]
    /\ call.out.tokens # rec0
    /\ \E q \in SessionType : written[q] = rec0

\* the refresh token the television exchange of the last refreshTokens call settled on
TvTokenOfCall == IF rf.tvSent # "" THEN rf.tvSent ELSE rf.tokens.refresh_token
MobileRefreshed == rf.pc = "done" /\ rf.out.ok /\ rf.sessionType # TV
\* some backend holds record w under the key of session type p
Persisted(p, w) ==
    \E tier \in StorageProviderType :
        ProviderGetTokens(tier, S, p, [t \in StorageProviderType |-> "ok"]) = Ok(w)

\* C6 (as claimed): the record refreshTokens returns and persists for a mobile profile
\* has the refresh_token of the stale record passed in, also when the television
\* exchange of the same call returned a rotated refresh token.
C6_MobileKeepsStaleRefreshToken ==
    MobileRefreshed =>
        /\ rf.out.tokens.refresh_token = rf.tokens.refresh_token
        /\ written[rf.sessionType] = rf.out.tokens

\* C6 (amended): the record refreshTokens returns and persists for a mobile profile has
\* the refresh token of the television record of the same call: the rotated token when
\* the television exchange returned one, else the stale record's. The response of the
\* mobile exchange never changes it.
C6_MobileKeepsTvRefreshToken ==
    MobileRefreshed =>
        /\ rf.out.tokens.refresh_token = TvTokenOfCall
        /\ rf.out.tokens.refresh_token = written[TV].refresh_token
        /\ written[rf.sessionType] = rf.out.tokens
        /\ Persisted(rf.sessionType, rf.out.tokens)

C6_Witness ==
    /\ MobileRefreshed
    /\ rf.tokens.refresh_token = "r1"
    /\ rf.tvSent = "r3"
    /\ rf.out.tokens.refresh_token = "r3"
    /\ Persisted(rf.sessionType, rf.out.tokens)

\* C7 (as claimed): makeRequest refreshes the record it read, before the first resource
\* request, exactly when the current time is at or after the record's expires,
\* the instant of equality included.
C7_RefreshedIffAtOrAfterExpires ==
    (mr.pc # "idle" /\ mr.read # NoTokens) =>
        (mr.staleRefresh <=> mr.clock >= getTime(mr.read.expires))

FirstStatus == mr.status[1]
Finished == mr.pc = "done" /\ mr.requests >= 1
AuthStatuses == {401, 403}
StatusOutcome(s) == IF s = 200 THEN Ok(mr.sent) ELSE Throw(Err(s, "api"))

\* C8 (as claimed): a 401 or 403 from the first resource request is always followed by
\* exactly one refreshTokens call and then exactly one retry with headers built from the
\* refreshed record.
C8_AuthErrorAlwaysRetried ==
    (Finished /\ FirstStatus \in AuthStatuses) =>
        /\ mr.authRefresh
        /\ mr.requests = 2
        /\ mr.headers = getHeadersForSession(mr.sessionType, rf.out.tokens)

\* what one makeRequest has done when it ends
C8_Outcome ==
    /\ mr.requests <= 2 /\ mr.refreshes <= 2 /\ rf.exchanges <= 2
    /\ Len(mr.status) = mr.requests
    /\ mr.refreshes = (IF mr.staleRefresh THEN 1 ELSE 0) + (IF mr.authRefresh THEN 1 ELSE 0)
    /\ Finished =>
          /\ mr.authRefresh <=> FirstStatus \in AuthStatuses
          /\ FirstStatus \notin AuthStatuses =>
                mr.requests = 1 /\ mr.out = StatusOutcome(FirstStatus)
          /\ FirstStatus \in AuthStatuses =>
                IF rf.out.ok
                THEN /\ mr.requests = 2
                     /\ mr.sent = rf.out.tokens
                     /\ mr.headers = getHeadersForSession(mr.sessionType, rf.out.tokens)
                     /\ mr.out = StatusOutcome(mr.status[2])
                ELSE /\ mr.requests = 1
                     /\ mr.out = Throw(Err(500, "refresh"))

\* the upstream calls a makeRequest in progress can still await, at most
Remaining ==
    CASE mr.pc = "refresh1" -> IF rf.pc = "tv" THEN 6 ELSE 5
      [] mr.pc = "request1" -> 4
      [] mr.pc = "refresh2" -> IF rf.pc = "tv" THEN 3 ELSE 2
      [] mr.pc = "request2" -> 1
      [] OTHER -> 0
InProgress == mr.pc \notin {"idle", "done"}
\* the call a makeRequest in progress is waiting for
Awaited ==
    \/ mr.pc \in {"refresh1", "refresh2"} /\ rf.pc \in {"tv", "mobile"}
    \/ mr.pc = "request1" /\ rf.pc \in {"idle", "done"}
    \/ mr.pc = "request2" /\ rf.pc = "done"

\* C8 (amended): a 401 or 403 from the first resource request triggers exactly one
\* refreshTokens call; when that refresh succeeds, exactly one retry follows with headers
\* built from the refreshed record and its outcome is final, whatever its status; when
\* the refresh fails, its error (status 500) propagates and there is no retry. Any other
\* failure status propagates with no refresh. One makeRequest issues at most 2 resource
\* requests and at most 2 refreshes, and it ends: while in progress it awaits one
\* upstream call, and each call that settles leaves strictly fewer to await.
C8_OneRefreshOneRetry ==
    /\ [](C8_Outcome /\ (InProgress => Awaited))
    /\ [][InProgress => Remaining' < Remaining]_vars

C8_Witness ==
    /\ Finished
    /\ mr.staleRefresh /\ mr.refreshes = 2
    /\ mr.status = <<401, 403>>
    /\ mr.out = Throw(Err(403, "api"))

\* C9: the headers of a resource request hold Host: api.tidal.com exactly when the
\* profile is not TV; Authorization is the bearer of the record's access_token and
\* X-Tidal-Token is the client id of the profile.
C9_HostOnlyForMobile ==
    mr.requests >= 1 =>
        /\ mr.headers = getHeadersForSession(mr.sessionType, mr.sent)
        /\ ("Host" \in DOMAIN mr.headers) <=> (mr.sessionType # TV)
        /\ \A h \in DOMAIN mr.headers : h = "Host" => mr.headers[h] = "api.tidal.com"
        /\ mr.headers["Authorization"] = "Bearer " \o mr.sent.access_token
        /\ mr.headers["X-Tidal-Token"] = CLIENT_IDS[mr.sessionType]

C9_Witness ==
    /\ mr.requests = 2
    /\ mr.sessionType = MOBILE_ATMOS
    /\ "Host" \in DOMAIN mr.headers
    /\ mr.headers["Authorization"] = "Bearer a4"

\* C10 (as claimed): once KV is the active tier, no getTokens or updateTokens call
\* changes the active tier.
C10_KVIsTerminal ==
    (Called /\ call.before.storage = "kv") => storage = "kv"

\* C10 (amended): from KV the active tier changes only to Redis, and only in auto mode
\* with Redis bound, by the policy check at the top of a call or after a fallback to
\* Redis that succeeded; with Redis unbound or another mode KV is terminal. Redis is
\* terminal.
C10_KVDemotesOnlyToRedis ==
    /\ (Called /\ call.before.storage = "kv") =>
          /\ storage \in {"kv", "redis"}
          /\ storage = "redis" =>
                (env.REDIS /\ Auto /\ (call.topSwitch \/ call.failSwitch) /\ env.USE_REDIS)
          /\ (~env.REDIS \/ ~Auto) => storage = "kv"
    /\ (Called /\ call.before.storage = "redis") => storage = "redis"

C10_Witness ==
    /\ Called /\ Auto
    /\ call.before.storage = "kv"
    /\ call.before.reads = 95000
    /\ call.topSwitch
    /\ storage = "redis"

\* C11: outside auto mode no call changes the active tier, the provider of the
\* statistics or the USE_D1 / USE_REDIS flags: they stay as the constructor set them,
\* whatever the errors (429 included) and the counters.
C11_NoPolicyOutsideAuto ==
    /\ [](~Auto => /\ storage = constructor(env).storage
                   /\ storageStats.provider = constructor(env).storageStats.provider
                   /\ env = constructorEnv(env))
    /\ [][~Auto => /\ storage' = storage
                   /\ storageStats'.provider = storageStats.provider
                   /\ env' = env]_vars

C11_Witness ==
    /\ ~Auto /\ Called
    /\ call.before.storage = "d1" /\ storage = "d1"
    /\ call.log[1].error.status = 429
    /\ Len(call.log) >= 2 /\ call.log[2].ok
    /\ consecutiveErrors >= errorThreshold

AllOk == [t \in StorageProviderType |-> "ok"]
\* the configured tiers strictly below a tier, in order; none outside auto mode
ExpectedMirrors(tier) ==
    IF ~Auto THEN <<>>
    ELSE CASE tier = "d1" -> IF env.REDIS THEN <<"kv", "redis">> ELSE <<"kv">>
           [] tier = "kv" -> IF env.REDIS THEN <<"redis">> ELSE <<>>
           [] OTHER -> <<>>
\* the tiers an updateTokens call accessed after its first access, in order
LaterTiers == [i \in 1 .. Len(call.log) - 1 |-> call.log[i + 1].tier]

\* C12: after the write on the active tier succeeded, updateTokens has attempted a write
\* of the same record under the same key on every configured tier strictly below the
\* active one, and on no other tier, in auto mode; outside auto mode it has attempted
\* no mirrored write.
C12_MirrorsToLowerTiers ==
    (call.op = "updateTokens" /\ PrimaryOk) =>
        /\ LaterTiers = ExpectedMirrors(call.log[1].tier)
        /\ \A i \in 2 .. Len(call.log) :
              /\ call.log[i].role = "backup" /\ call.log[i].op = "put"
              /\ call.log[i].ok =>
                    ProviderGetTokens(call.log[i].tier, S, call.sessionType, AllOk)
                        = Ok(call.arg)

C12_Witness ==
    /\ call.op = "updateTokens" /\ PrimaryOk /\ Auto
    /\ call.log[1].tier = "d1"
    /\ LaterTiers = <<"kv", "redis">>
    /\ ~call.log[2].ok /\ call.log[3].ok
    /\ RedisStorageGetTokens(redisStore, call.sessionType, "ok") = Ok(call.arg)

\* two errors the caller cannot tell apart: the same status and the same message (the
\* "No tokens found" message of a 404 is the same on every backend)
SameError(a, b) == a.status = b.status /\ (a.status = 404 \/ a.origin = b.origin)

\* C13 (as claimed): when getTokens fails on the active tier and every fallback read
\* fails too, the error raised is the error of the active tier, in every configuration.
C13_OriginalErrorRaised ==
    (call.op = "getTokens" /\ ~call.out.ok) => SameError(call.out.error, call.log[1].error)

\* C14 (as claimed): when updateTokens fails on the active tier and the fallback write
\* fails too, the error raised reports both failures: it is neither the error of the
\* active tier nor the error of a fallback tier alone.
C14_CombinedErrorRaised ==
    (call.op = "updateTokens" /\ ~call.out.ok /\ Len(call.log) >= 2) =>
        \A i \in DOMAIN call.log : ~SameError(call.out.error, call.log[i].error)

\* the tier that is active right after the policy check at the top of the call
AfterTop == call.log[1].tier
FallbackOk == Len(call.log) >= 2 /\ call.log[2].role = "fallback" /\ call.log[2].ok
\* consecutiveErrors once the failure of the call's first access is counted
ErrorsCounted == (IF call.topSwitch THEN 0 ELSE call.before.consecutiveErrors) + 1

\* C15 (as claimed): in updateTokens the active tier changes only in the policy check at
\* the top of the call; after a failed write and a fallback write that succeeded the
\* active tier is still the one that was active right after that check.
C15_FallbackNeverSwitches ==
    (call.op = "updateTokens" /\ ~PrimaryOk /\ call.out.ok) => storage = AfterTop

\* C15 (amended): in updateTokens the active tier changes in the policy check at the top
\* of the call and, after a failed write, in the failure path: when the fallback write on
\* the next lower tier succeeded, the mode is auto and the error had status 429 or was
\* the third consecutive one, the manager switches to that tier; otherwise the active
\* tier at return is the one that was active right after the top-of-call check.
C15_FallbackSwitchesOnThreshold ==
    call.op = "updateTokens" =>
        LET switch == /\ ~PrimaryOk /\ FallbackOk /\ Auto
                      /\ call.log[2].tier = NextLower(AfterTop)
                      /\ \/ call.log[1].error.status = 429
                         \/ ErrorsCounted >= errorThreshold
        IN  /\ call.failSwitch <=> switch
            /\ storage = IF switch THEN NextLower(AfterTop) ELSE AfterTop

C15_Witness ==
    /\ call.op = "updateTokens" /\ ~PrimaryOk /\ FallbackOk
    /\ ~call.topSwitch /\ call.before.consecutiveErrors = 0
    /\ call.log[1].error.status = 429
    /\ AfterTop = "kv" /\ storage = "redis"

\* STORAGE_PREFERENCE names one backend and that backend is bound
SingleBackend ==
    \/ env.STORAGE_PREFERENCE = "d1" /\ env.D1_DB
    \/ env.STORAGE_PREFERENCE = "kv"
    \/ env.STORAGE_PREFERENCE = "redis" /\ env.REDIS

\* C16 (as claimed): with STORAGE_PREFERENCE d1, kv or redis and that backend bound,
\* every read and write of a getTokens or updateTokens call goes to that backend only,
\* also when its operation fails.
C16_OnlySelectedBackend ==
    (Called /\ SingleBackend) =>
        \A i \in DOMAIN call.log : call.log[i].tier = env.STORAGE_PREFERENCE

\* the manager is as its constructor leaves it on the environment it holds
NewlyConstructed == calls = 0 /\ M = constructor(env)

\* C17 (as claimed): in auto mode a newly constructed manager starts on D1 when D1 is
\* bound and otherwise on KV; Redis is never the starting tier of auto mode.
C17_AutoStartsOnD1OrKV ==
    (Auto /\ NewlyConstructed) =>
        /\ storage = (IF env.D1_DB THEN "d1" ELSE "kv")
        /\ storageStats.provider = storage

AdapterOps == {"D1Storage.getTokens", "D1Storage.updateTokens"}

\* C18 (as claimed): the D1 adapter makes sure the tokens table exists before it reads
\* or writes: after a call of the adapter that no fault struck the table exists, a
\* getTokens answered or failed with 404, and an updateTokens succeeded.
C18_TableExistsOnFirstUse ==
    (call.op \in AdapterOps /\ call.fault = "ok") =>
        /\ "tokens" \in d1Schema
        /\ call.op = "D1Storage.getTokens" => (call.out.ok \/ call.out.error.status = 404)
        /\ call.op = "D1Storage.updateTokens" => call.out.ok

\* C19: the status snapshot reports the operations served so far: right after
\* a status request, the snapshot names the tier the serving manager is on as
\* the primary one and reports, for that tier, the reads and writes the
\* manager counted on it and at least its errors (a failed health check adds
\* one).
C19_StatusReflectsOperations ==
    (storageStatus.taken /\ storageStatus.calls = calls) =>
        /\ storageStatus.primary = storage
        /\ storageStatus.statistics[storage].reads = storageStats.reads
        /\ storageStatus.statistics[storage].writes = storageStats.writes
        /\ storageStatus.statistics[storage].errors >= storageStats.errors

\* C20: a manager owns its choice of tier while other requests run on the
\* same Env: the backend it uses, the provider of its statistics and the
\* USE_D1/USE_REDIS flags its policy and fallback consult agree in every
\* state, and no call of it ends on a tier above the one it started on.
C20_ManagerOwnsItsTier ==
    /\ storage = storageStats.provider
    /\ env.USE_D1 <=> storage = "d1"
    /\ env.USE_REDIS <=> storage = "redis"
    /\ Called => rank(storage) >= rank(call.before.storage)

FallbackTiers ==
    LET fb == SelectSeq(call.log, LAMBDA a : a.role = "fallback")
    IN  [i \in 1 .. Len(fb) |-> fb[i].tier]
\* the tiers a failed operation on a tier is retried on when every retry fails
LowerTiers(tier) ==
    CASE tier = "d1" -> IF env.REDIS THEN <<"kv", "redis">> ELSE <<"kv">>
      [] tier = "kv" -> IF env.REDIS THEN <<"redis">> ELSE <<>>
      [] OTHER -> <<>>
IsPrefix(a, b) == Len(a) <= Len(b) /\ a = SubSeq(b, 1, Len(a))

\* C22 (as claimed): a failed operation on the active tier is retried once, on
\* the next lower tier: the call issues it to at most two backends.
C22_AtMostOneFallback ==
    (Called /\ ~PrimaryOk) =>
        /\ Len(call.log) <= 2
        /\ Len(call.log) = 2 => call.log[2].tier = NextLower(AfterTop)

\* C22 (amended): a failed operation on the active tier is retried on the
\* bound lower tiers in order (from D1 on KV and then Redis, from KV on
\* Redis, from Redis nowhere) until one answers: each retry but the last
\* failed, the call succeeds exactly when the last retry succeeded, and it
\* fails only after every bound lower tier was tried. A call issues the
\* operation to at most three backends, each at most once; an operation that
\* succeeded on the active tier is not retried.
C22_FallbackCascades ==
    Called =>
        LET n == Len(FallbackTiers)
            first == Len(call.log) - n      \* the primary access and the mirrors
        IN  /\ PrimaryOk => n = 0 /\ call.out.ok
            /\ ~PrimaryOk =>
                  /\ first = 1
                  /\ IsPrefix(FallbackTiers, LowerTiers(AfterTop))
                  /\ \A i \in 1 .. n - 1 : ~call.log[first + i].ok
                  /\ call.out.ok <=> (n >= 1 /\ call.log[first + n].ok)
                  /\ ~call.out.ok => FallbackTiers = LowerTiers(AfterTop)
            /\ Len(call.log) <= 3
            /\ \A i, j \in DOMAIN call.log : call.log[i].tier = call.log[j].tier => i = j

C22_Witness ==
    /\ call.op = "getTokens" /\ call.out.ok
    /\ AfterTop = "d1"
    /\ FallbackTiers = <<"kv", "redis">>
    /\ ~call.log[1].ok /\ ~call.log[2].ok /\ call.log[3].ok

\* a refreshTokens call has begun
Refreshing == rf.pc # "idle"
\* the television record of the call is stored
TvPersisted == written[TV] = rf.tvTokens /\ Persisted(TV, rf.tvTokens)

\* C23: refreshTokens issues the television exchange first and stores its
\* record before any mobile exchange; a mobile exchange follows exactly for
\* a mobile profile, with the refresh token the television exchange settled
\* on (the rotated one if the response held one, else the stale one); a call
\* that returns has made one exchange for TV and two for a mobile profile,
\* and returns the record stored for the requested profile.
C23_TvFirstThenMobile ==
    Refreshing =>
        /\ rf.pc = "tv" => rf.exchanges = 0
        /\ rf.pc = "mobile" =>
              /\ rf.sessionType # TV /\ rf.exchanges = 1
              /\ TvPersisted
              /\ call.op = "updateTokens" /\ call.sessionType = TV /\ call.out.ok
              /\ rf.tvTokens.refresh_token = TvTokenOfCall
        /\ rf.exchanges = 2 => rf.sessionType # TV /\ TvPersisted
        /\ (rf.pc = "done" /\ rf.out.ok) =>
              /\ rf.exchanges = IF rf.sessionType = TV THEN 1 ELSE 2
              /\ TvPersisted
              /\ rf.out.tokens = written[rf.sessionType]
              /\ Persisted(rf.sessionType, rf.out.tokens)
              /\ rf.out.tokens.refresh_token = TvTokenOfCall
              /\ rf.sessionType = TV => rf.out.tokens = rf.tvTokens

C23_Witness ==
    /\ rf.pc = "done" /\ rf.out.ok
    /\ rf.sessionType = MOBILE_DEFAULT
    /\ rf.exchanges = 2
    /\ rf.tvSent = "" /\ rf.out.tokens.refresh_token = "r1"
    /\ rf.out.tokens.access_token = "a4"
    /\ written[TV].access_token = "a3"
    /\ Persisted(MOBILE_DEFAULT, rf.out.tokens)

\* C24 (as claimed): the refresh token refreshTokens presents in the
\* television exchange is the refresh token of the stored television
\* record, for the television profile and for both mobile profiles.
C24_PresentsStoredTvToken ==
    rf.pc = "tv" => rf.tokens.refresh_token = written[TV].refresh_token

\* the refresh in progress ends in failure
RefreshFails == rf'.pc = "done" /\ ~rf'.out.ok
\* no backend and no stored record changes
NothingWritten == UNCHANGED <<storeVars, written>>

\* C25: a refresh failure is final. When the television exchange fails,
\* refreshTokens fails with status 500 after that one exchange and nothing
\* is written; when the mobile exchange fails, it fails with status 500
\* after two exchanges, the new television record stays stored and no
\* mobile record is written. Every failure of refreshTokens has status 500
\* and no exchange is issued twice: one call makes at most one television
\* and one mobile exchange.
C25_RefreshFailuresAreHard ==
    /\ [](/\ rf.exchanges <= (IF rf.sessionType = TV THEN 1 ELSE 2)
          /\ rf.pc = "mobile" => rf.exchanges = 1
          /\ (rf.pc = "done" /\ ~rf.out.ok) =>
                rf.out.error.status = 500 /\ rf.exchanges >= 1)
    /\ [][(rf.pc = "tv" /\ RefreshFails /\ rf'.tvTokens = NoTokens) =>
             /\ NothingWritten
             /\ UNCHANGED call
             /\ rf'.exchanges = 1]_vars
    /\ [][(rf.pc = "mobile" /\ RefreshFails /\ call' = call) =>
             /\ NothingWritten
             /\ TvPersisted'
             /\ rf'.exchanges = 2]_vars

C25_Witness ==
    /\ rf.pc = "done" /\ ~rf.out.ok /\ rf.out.error.status = 500
    /\ rf.sessionType = MOBILE_ATMOS /\ rf.exchanges = 2
    /\ call.op = "updateTokens" /\ call.sessionType = TV /\ call.out.ok
    /\ TvPersisted /\ written[TV].access_token = "a3"
    /\ written[MOBILE_ATMOS] = rec0
    /\ Persisted(MOBILE_ATMOS, rec0)

\* the counters of the call's tier, once the call's own read or write is counted,
\* are below the 95% thresholds
BelowQuotaCounted ==
    LET b == call.before
    IN  ~AtQuota([b EXCEPT !.reads = @ + 1, !.writes = @ + 1])

\* C26 (as claimed): a tier switch needs a counter at 95% of its quota or 3
\* consecutive errors: a first failure followed by a fallback that
\* succeeded, with the counters below their thresholds, leaves the active
\* tier as it was, whatever the status of the failure.
C26_SwitchOnlyByPolicy ==
    (Called /\ ~call.topSwitch /\ ~PrimaryOk /\ FallbackOk /\ BelowQuotaCounted
     /\ ErrorsCounted < errorThreshold) =>
        storage = call.before.storage

\* C26 (amended): a call changes the active tier only in auto mode and only
\* in two places: at its top, when a counter of the active tier is at 95% of
\* its quota or the consecutive errors are at least 3; and after a failed
\* operation whose fallback on the next lower tier succeeded, when the error
\* had status 429 or the consecutive errors, this failure counted, are at
\* least 3. A failure with another status and fewer than 3 consecutive
\* errors never changes the tier.
C26_SwitchByPolicyOr429 ==
    Called =>
        /\ call.topSwitch =>
              Auto /\ (AtQuota(call.before) \/ call.before.consecutiveErrors >= errorThreshold)
        /\ call.failSwitch =>
              /\ Auto /\ ~PrimaryOk /\ FallbackOk
              /\ storage = NextLower(AfterTop)
              /\ \/ call.log[1].error.status = 429
                 \/ ErrorsCounted >= errorThreshold
        /\ storage # call.before.storage => (call.topSwitch \/ call.failSwitch)
        /\ (~call.topSwitch /\ ~PrimaryOk /\ call.log[1].error.status # 429
            /\ ErrorsCounted < errorThreshold) => storage = call.before.storage

C26_Witness ==
    /\ call.op = "getTokens" /\ Auto
    /\ ~call.topSwitch /\ call.failSwitch
    /\ call.before.storage = "d1" /\ storage = "kv"
    /\ call.before.consecutiveErrors = 0 /\ call.before.reads = 0
    /\ call.log[1].error.status = 429

\* the counters the call counts on: zero after a switch at its top
CountBase ==
    IF call.topSwitch
    THEN [reads |-> 0, writes |-> 0, errors |-> 0, consecutiveErrors |-> 0]
    ELSE [reads |-> call.before.reads, writes |-> call.before.writes,
          errors |-> call.before.errors,
          consecutiveErrors |-> call.before.consecutiveErrors]

\* C27: a getTokens call counts one read and an updateTokens call one write,
\* after the switch at its top if there was one, however many fallback,
\* mirrored or fallback-write accesses it makes. A success on the active tier
\* sets the consecutive errors to 0 and leaves errors as it was, also when
\* mirrored writes failed; a failure on the active tier adds one to errors
\* and one to the consecutive errors, and a success of a fallback does not
\* reset them. Only a switch after the failure resets the counters, to zero.
C27_CountersPerCall ==
    Called =>
        /\ call.failSwitch => ~PrimaryOk /\ Zeroed /\ consecutiveErrors = 0
        /\ ~call.failSwitch =>
              /\ storageStats.reads =
                    CountBase.reads + (IF call.op = "getTokens" THEN 1 ELSE 0)
              /\ storageStats.writes =
                    CountBase.writes + (IF call.op = "updateTokens" THEN 1 ELSE 0)
              /\ PrimaryOk =>
                    /\ consecutiveErrors = 0
                    /\ storageStats.errors = CountBase.errors
              /\ ~PrimaryOk =>
                    /\ consecutiveErrors = CountBase.consecutiveErrors + 1
                    /\ storageStats.errors = CountBase.errors + 1

C27_Witness ==
    /\ call.op = "updateTokens" /\ PrimaryOk /\ ~call.topSwitch
    /\ Len(call.log) = 3 /\ ~call.log[2].ok /\ ~call.log[3].ok
    /\ call.before.consecutiveErrors = 2 /\ call.before.errors = 2
    /\ consecutiveErrors = 0 /\ storageStats.errors = 2
    /\ storageStats.writes = 1 /\ storageStats.reads = call.before.reads

\* C28 (as claimed): a manager reads its own writes: a getTokens that the
\* active tier answers returns the record of the last updateTokens that
\* succeeded for that session type, also when that write was served by a
\* fallback tier and the active tier was not demoted.
C28_ReadYourWrites ==
    (call.op = "getTokens" /\ PrimaryOk /\ written[call.sessionType] # NoTokens) =>
        call.out.tokens = written[call.sessionType]

\* C29: in auto mode, while the active tier has a lower tier bound (D1, or KV
\* with Redis bound), its reads and writes counters are at most their 95%
\* thresholds: they reach the threshold and the next call switches and
\* resets them before it counts.
C29_CountersWithinThreshold ==
    (Auto /\ LowerConfigured(storage)) =>
        /\ storageStats.reads <= readThreshold(storageLimits[storage])
        /\ storageStats.writes <= writeThreshold(storageLimits[storage])

C29_Witness ==
    /\ Auto /\ call.op = "getTokens"
    /\ call.before.storage = "kv" /\ env.REDIS
    /\ call.before.reads = readThreshold(storageLimits.kv)
    /\ call.topSwitch /\ storage = "redis"
    /\ storageStats.reads = 1

\* a getTokens call whose read on the active tier ended with 404
NotFoundOnActive ==
    call.op = "getTokens" /\ ~PrimaryOk /\ call.log[1].error.status = 404

\* C30 (as claimed): a 404 of the active tier counts like any failure, and
\* the third getTokens in a row that fails on the top tier, ending with 404,
\* demotes the tier.
C30_ThirdNotFoundDemotes ==
    (NotFoundOnActive /\ call.before.storage = Top /\ ~call.topSwitch
     /\ call.before.reads = errorThreshold - 1
     /\ call.before.consecutiveErrors = errorThreshold - 1) =>
        storage # Top

\* C30 (amended): a 404 of the active tier is handled as a failure: it adds
\* one to errors and to the consecutive errors and the read is retried on
\* the lower tiers. It counts toward the demotion: the call switches when
\* its fallback on the next lower tier succeeded and this was the third
\* consecutive error; when the fallback failed too the manager stays, with
\* three consecutive errors, and the next call switches at its top.
C30_NotFoundCounts ==
    /\ NotFoundOnActive =>
          /\ LowerTiers(AfterTop) # <<>> => FallbackTiers # <<>>
          /\ call.failSwitch <=>
                (Auto /\ FallbackOk /\ ErrorsCounted >= errorThreshold)
          /\ call.failSwitch => storage = NextLower(AfterTop)
          /\ ~call.failSwitch =>
                /\ storage = AfterTop
                /\ storageStats.errors = CountBase.errors + 1
                /\ consecutiveErrors = CountBase.consecutiveErrors + 1
    /\ (Called /\ call.before.storage = Top
        /\ call.before.consecutiveErrors >= errorThreshold) =>
          call.topSwitch /\ storage # Top

C30_Witness ==
    /\ NotFoundOnActive /\ call.before.storage = "d1"
    /\ call.before.reads = 2 /\ call.before.consecutiveErrors = 2
    /\ FallbackOk /\ call.log[2].tier = "kv"
    /\ call.failSwitch /\ storage = "kv" /\ Zeroed

====
